---- MODULE Spec2Model ----
(***************************************************************************)
(* Model of assets/scripts/carousel.js: one Carousel instance bound to one *)
(* carousel root of the page, the jQuery class operations it performs on   *)
(* its slides and navigation triggers, the browser's interval timers and   *)
(* the event handlers attached to the root and to the next/prev triggers.  *)
(*                                                                         *)
(* Environment: the page holds one root matched by the resolved CAROUSEL   *)
(* selector, with a slide container of D slide children (D in              *)
(* 0..MaxSlides), a next and a prev trigger and an empty navigation        *)
(* container; no element carries a marker class in the markup.  The        *)
(* pointer is outside the root when the page loads.                        *)
(***************************************************************************)
EXTENDS Integers, Sequences, FiniteSets, TLC

\* ------------------------------------------------------------------ bounds
MaxSlides == 3
MaxTimers == 2
MaxHandlers == 2

\* --------------------------------------------------------------- variables
VARIABLES
    pc,                 \* "new": fields set by the constructor, init() not yet run; "ready"
    SELECTORS,          \* the constructor's SELECTORS argument (never changes)
    view,               \* the instance and the DOM it renders to:
                        \*   selectors, slides, nav_items, currentSlide, currentIndex,
                        \*   numSlides: this.selectors, this.$slides, this.$nav_items,
                        \*   this.$currentSlide, this.currentIndex, this.numSlides;
                        \*   slideClasses, navClasses: the marker classes of each child
                        \*   of the slide container / the navigation container;
                        \*   navClick: the index bound to each navigation trigger's click;
                        \*   error: a TypeError was thrown
    timer,              \* this.timer (0 models null)
    isEnabled,          \* this.isEnabled
    mouseenterHandlers, \* DOM: number of mouseenter handlers attached to the root
    mouseleaveHandlers, \* DOM: number of mouseleave handlers attached to the root
    nextClickHandlers,  \* DOM: number of click handlers attached to the next trigger
    prevClickHandlers,  \* DOM: number of click handlers attached to the prev trigger
    activeTimers,       \* browser: ids of the interval registrations still active
    timerIds,           \* browser: number of interval ids handed out so far
    pointerInside,      \* environment: the pointer is over the root
    last,               \* history: the operation that led to this state, its argument
                        \*          (for enable/disable: 1 if isEnabled was set at the call,
                        \*          for stopSlideshow: 1 if this.timer was still registered)
                        \*          and the currentIndex it started from
    before,             \* history: the view before the last goToNextSlide()/
                        \*          goToPreviousSlide() call, or before that call and its
                        \*          undoing (undid), or before a repeated goToSlide(t) (twice)
    twice,              \* history: the last two operations were the same goToSlide(t)
    undid,              \* history: the last two operations were goToNextSlide() and
                        \*          goToPreviousSlide(), in either order
    run,                \* history: consecutive goToNextSlide() calls since currentIndex was 0
    hoverPaused         \* history: a mouseenter was handled and no mouseleave since

handlers == <<isEnabled, mouseenterHandlers, mouseleaveHandlers, nextClickHandlers,
              prevClickHandlers>>
timers == <<timer, activeTimers, timerIds>>
hist == <<last, before, twice, undid, run, hoverPaused>>
vars == <<pc, SELECTORS, view, handlers, timers, pointerInside, hist>>

\* ------------------------------------------------------------ configuration
Keys == {"CAROUSEL", "SLIDES_WRAP", "TRIGGER_NEXT", "TRIGGER_PREV", "NAV_WRAP",
         "ACTIVE_SLIDE_CLASS", "INACTIVE_SLIDE_CLASS", "ACTIVE_NAV_CLASS"}

SELECTORS_DEFAULT ==
    [CAROUSEL             |-> ".carousel",
     SLIDES_WRAP          |-> ".carousel-slides",
     TRIGGER_NEXT         |-> ".carousel-next",
     TRIGGER_PREV         |-> ".carousel-prev",
     NAV_WRAP             |-> ".carousel-nav",
     ACTIVE_SLIDE_CLASS   |-> "carousel-item_isActive",
     INACTIVE_SLIDE_CLASS |-> "carousel-item_isInactive",
     ACTIVE_NAV_CLASS     |-> "carousel-nav-item-active"]

\* A value a caller may supply for a key that differs from the default.
Custom ==
    [CAROUSEL             |-> "#hero",
     SLIDES_WRAP          |-> ".hero-slides",
     TRIGGER_NEXT         |-> ".hero-next",
     TRIGGER_PREV         |-> ".hero-prev",
     NAV_WRAP             |-> ".hero-nav",
     ACTIVE_SLIDE_CLASS   |-> "is-on",
     INACTIVE_SLIDE_CLASS |-> "is-off",
     ACTIVE_NAV_CLASS     |-> "is-dot"]

\* JavaScript truthiness of selectors[k]: undefined (absent key) and "" are falsy.
Truthy(sel, k) == k \in DOMAIN sel /\ sel[k] # ""

\* setSelectors: every default key whose current value is falsy takes its default.
setSelectors(sel) ==
    [k \in Keys \cup DOMAIN sel |->
        IF k \in Keys /\ ~Truthy(sel, k) THEN SELECTORS_DEFAULT[k] ELSE sel[k]]

\* ------------------------------------------------------------------ jQuery
\* A property holding null, or a jQuery object over an ordered list of elements
\* (elements are named by their position among their parent's children).
Null == [isNull |-> TRUE, els |-> <<>>]
JQ(els) == [isNull |-> FALSE, els |-> els]
Range(s) == {s[i] : i \in DOMAIN s}
Children(n) == [i \in 1..n |-> i - 1]

\* jQuery.fn.eq: negative positions count from the end, out of range gives the empty set.
Eq(jq, i) ==
    LET len == Len(jq.els)
        j == i + (IF i < 0 THEN len ELSE 0)
    IN  IF j >= 0 /\ j < len THEN JQ(<<jq.els[j + 1]>>) ELSE JQ(<<>>)

addClass(classes, jq, c) ==
    [e \in DOMAIN classes |-> IF e \in Range(jq.els) THEN classes[e] \cup {c} ELSE classes[e]]

removeClass(classes, jq, c) ==
    [e \in DOMAIN classes |-> IF e \in Range(jq.els) THEN classes[e] \ {c} ELSE classes[e]]

\* jQuery.fn.not(x): x null keeps every element.
Not(jq, x) == JQ(SelectSeq(jq.els, LAMBDA e : x.isNull \/ e \notin Range(x.els)))

\* $nav_wrap.find('.' + c): the navigation container's children carrying class c.
Find(classes, c) ==
    JQ(SelectSeq(Children(Cardinality(DOMAIN classes)), LAMBDA e : c \in classes[e]))

\* --------------------------------------------------------------------- view
\* Normalize with true modular wraparound.
NormalizeModulo(v, index) ==
    IF v.numSlides = 0 THEN 0 ELSE index % v.numSlides

\* Normalize with the upper test off by one (index > numSlides).
NormalizeOffByOne(v, index) ==
    IF index > v.numSlides THEN 0
    ELSE IF index < 0 THEN v.numSlides - 1
    ELSE index

\* The index normalisation at the head of goToSlide.
Normalize(v, index) ==
    IF index >= v.numSlides THEN 0
    ELSE IF index < 0 THEN v.numSlides - 1
    ELSE index

\* The previous slide's classes after it is made inactive.
Deactivate(v, classes) ==
    addClass(removeClass(classes, v.currentSlide, v.selectors.ACTIVE_SLIDE_CLASS),
             v.currentSlide, v.selectors.INACTIVE_SLIDE_CLASS)

\* The new current slide's classes after it is made active.
Activate(v, classes, cur) ==
    addClass(removeClass(classes, cur, v.selectors.INACTIVE_SLIDE_CLASS),
             cur, v.selectors.ACTIVE_SLIDE_CLASS)

\* The navigation classes after the active marker is removed from its carriers.
ClearNav(v) ==
    removeClass(v.navClasses, Find(v.navClasses, v.selectors.ACTIVE_NAV_CLASS),
                v.selectors.ACTIVE_NAV_CLASS)

\* Render that leaves the previous slide's classes alone.
RenderKeepPrevious(v, index) ==
    LET cur == Eq(v.slides, index)
    IN  [v EXCEPT !.slideClasses = Activate(v, v.slideClasses, cur),
                  !.navClasses = addClass(ClearNav(v), Eq(v.nav_items, index),
                                          v.selectors.ACTIVE_NAV_CLASS),
                  !.currentSlide = cur, !.currentIndex = index]

\* Render that activates the new slide before it deactivates the previous one.
RenderReordered(v, index) ==
    LET cur == Eq(v.slides, index)
        s1 == Activate(v, v.slideClasses, cur)
        s2 == IF ~v.currentSlide.isNull THEN Deactivate(v, s1) ELSE s1
    IN  [v EXCEPT !.slideClasses = s2,
                  !.navClasses = addClass(ClearNav(v), Eq(v.nav_items, index),
                                          v.selectors.ACTIVE_NAV_CLASS),
                  !.currentSlide = cur, !.currentIndex = index]

\* Render without the test of this.$currentSlide: null.removeClass throws.
RenderNoGuard(v, index) ==
    IF v.currentSlide.isNull THEN [v EXCEPT !.error = TRUE]
    ELSE LET cur == Eq(v.slides, index)
         IN  [v EXCEPT !.slideClasses = Activate(v, Deactivate(v, v.slideClasses), cur),
                       !.navClasses = addClass(ClearNav(v), Eq(v.nav_items, index),
                                               v.selectors.ACTIVE_NAV_CLASS),
                       !.currentSlide = cur, !.currentIndex = index]

\* The render part of goToSlide (lines 363-382) for an index already normalised.
\* Reading .eq of a property that is still null throws, leaving the steps before it done.
Render(v, index) ==
    LET s1 == IF ~v.currentSlide.isNull THEN Deactivate(v, v.slideClasses)
              ELSE v.slideClasses
        n1 == ClearNav(v)
        cur == Eq(v.slides, index)
        s2 == Activate(v, s1, cur)
        n2 == addClass(n1, Eq(v.nav_items, index), v.selectors.ACTIVE_NAV_CLASS)
    IN  IF v.slides.isNull
        THEN [v EXCEPT !.slideClasses = s1, !.navClasses = n1, !.error = TRUE]
        ELSE IF v.nav_items.isNull
        THEN [v EXCEPT !.slideClasses = s2, !.navClasses = n1, !.currentSlide = cur,
                       !.error = TRUE]
        ELSE [v EXCEPT !.slideClasses = s2, !.navClasses = n2,
                       !.currentSlide = cur, !.currentIndex = index]

\* A call made after a handler threw is not modelled: the view stays as it is.
goToSlideOp(v, index) ==
    IF v.error THEN v ELSE Render(v, Normalize(v, index))

\* goToNextSlide that stops at the last slide instead of wrapping.
goToNextSlideClamp(v) ==
    goToSlideOp(v, IF v.currentIndex + 1 >= v.numSlides THEN v.currentIndex
                   ELSE v.currentIndex + 1)

\* goToNextSlide that shows the current slide again.
goToNextSlideStay(v) == goToSlideOp(v, v.currentIndex)

goToNextSlideOp(v) == goToSlideOp(v, v.currentIndex + 1)

\* goToPreviousSlide that stops at the first slide instead of wrapping.
goToPreviousSlideClamp(v) ==
    goToSlideOp(v, IF v.currentIndex = 0 THEN 0 ELSE v.currentIndex - 1)

goToPreviousSlideOp(v) == goToSlideOp(v, v.currentIndex - 1)

\* createChildren that forgets to mark the slides inactive.
createChildrenNoInactive(v) ==
    LET d == Cardinality(DOMAIN v.slideClasses)
        n == Cardinality(DOMAIN v.navClasses)
        v1 == [v EXCEPT
                !.slides = JQ(Children(d)),
                !.numSlides = d,
                !.navClasses = [e \in 0..(n + d - 1) |-> IF e < n THEN v.navClasses[e] ELSE {}],
                !.navClick = [e \in 0..(n + d - 1) |-> IF e < n THEN -1 ELSE e - n],
                !.nav_items = JQ(Children(n + d))]
    IN  goToSlideOp(v1, v1.currentIndex)

\* createChildren: the page's slide container has the children of v.slideClasses,
\* its navigation container those of v.navClasses.
createChildrenOp(v) ==
    LET d == Cardinality(DOMAIN v.slideClasses)
        n == Cardinality(DOMAIN v.navClasses)
        sl == JQ(Children(d))
        s1 == addClass(v.slideClasses, Not(sl, v.currentSlide),
                       v.selectors.INACTIVE_SLIDE_CLASS)
        v1 == [v EXCEPT
                !.slides = sl,
                !.numSlides = d,
                !.slideClasses = s1,
                !.navClasses = [e \in 0..(n + d - 1) |-> IF e < n THEN v.navClasses[e] ELSE {}],
                !.navClick = [e \in 0..(n + d - 1) |-> IF e < n THEN -1 ELSE e - n],
                !.nav_items = JQ(Children(n + d))]
    IN  goToSlideOp(v1, v1.currentIndex)

\* ------------------------------------------------------------------- timers
Timers == [timer |-> timer, activeTimers |-> activeTimers, timerIds |-> timerIds]

SetTimers(t) ==
    /\ timer' = t.timer
    /\ activeTimers' = t.activeTimers
    /\ timerIds' = t.timerIds

\* startSlideshow() with a double-start guard: clears the running interval first.
startSlideshowGuarded(t) ==
    [timer |-> t.timerIds + 1,
     activeTimers |-> (t.activeTimers \ {t.timer}) \cup {t.timerIds + 1},
     timerIds |-> t.timerIds + 1]

\* startSlideshow() that drops the id setInterval returns.
startSlideshowNoHandle(t) ==
    [timer |-> t.timer,
     activeTimers |-> t.activeTimers \cup {t.timerIds + 1},
     timerIds |-> t.timerIds + 1]

\* setInterval hands out a fresh id and registers it; this.timer keeps the latest.
startSlideshowOp(t) ==
    [timer |-> t.timerIds + 1,
     activeTimers |-> t.activeTimers \cup {t.timerIds + 1},
     timerIds |-> t.timerIds + 1]

\* stopSlideshow() that cancels every registration, not only this.timer's.
stopSlideshowAll(t) == [t EXCEPT !.activeTimers = {}]

\* stopSlideshow() that also resets this.timer to null.
stopSlideshowClearHandle(t) == [t EXCEPT !.activeTimers = @ \ {t.timer}, !.timer = 0]

\* clearInterval(this.timer): null or an id no longer registered cancels nothing.
stopSlideshowOp(t) == [t EXCEPT !.activeTimers = @ \ {t.timer}]

\* A handler attached k times runs k times.
RECURSIVE NextTimes(_, _)
NextTimes(v, k) == IF k = 0 THEN v ELSE NextTimes(goToNextSlideOp(v), k - 1)

RECURSIVE PrevTimes(_, _)
PrevTimes(v, k) == IF k = 0 THEN v ELSE PrevTimes(goToPreviousSlideOp(v), k - 1)

RECURSIVE StartTimes(_, _)
StartTimes(t, k) == IF k = 0 THEN t ELSE StartTimes(startSlideshowOp(t), k - 1)

\* ------------------------------------------------------------------ history
Op(name, arg) == [op |-> name, arg |-> arg, from |-> view.currentIndex]

\* An operation that is none of goToSlide(t), goToNextSlide(), goToPreviousSlide().
Record(name, arg) ==
    /\ last' = Op(name, arg)
    /\ before' = view'
    /\ twice' = FALSE
    /\ undid' = FALSE
    /\ run' = 0

\* --------------------------------------------------------------------- Init
\* The supplied SELECTORS objects: any subset of the keys, each given either the
\* empty string or a value of the caller's own.
AllSupplied ==
    UNION {{[k \in K |-> IF k \in E THEN "" ELSE Custom[k]] : E \in SUBSET K} :
           K \in SUBSET Keys}

\* The configuration of the main specification: the marker classes supplied by
\* the caller, the selectors left to their defaults.
MainSupplied ==
    {[k \in {"ACTIVE_SLIDE_CLASS", "INACTIVE_SLIDE_CLASS", "ACTIVE_NAV_CLASS"} |-> Custom[k]]}

\* The constructor's field assignments (lines 26-126), before it calls init().
Constructed(S, d) ==
    /\ pc = "new"
    /\ SELECTORS = S
    /\ view = [selectors |-> S, slides |-> Null, nav_items |-> Null,
              currentSlide |-> Null, currentIndex |-> 0, numSlides |-> 0,
              slideClasses |-> [e \in 0..(d - 1) |-> {}],
              navClasses |-> [e \in 0..(-1) |-> {}],
              navClick |-> [e \in 0..(-1) |-> 0], error |-> FALSE]
    /\ timer = 0
    /\ isEnabled = FALSE
    /\ mouseenterHandlers = 0
    /\ mouseleaveHandlers = 0
    /\ nextClickHandlers = 0
    /\ prevClickHandlers = 0
    /\ activeTimers = {}
    /\ timerIds = 0
    /\ pointerInside = FALSE
    /\ last = [op |-> "new", arg |-> 0, from |-> 0]
    /\ before = [selectors |-> S, slides |-> Null, nav_items |-> Null,
              currentSlide |-> Null, currentIndex |-> 0, numSlides |-> 0,
              slideClasses |-> [e \in 0..(d - 1) |-> {}],
              navClasses |-> [e \in 0..(-1) |-> {}],
              navClick |-> [e \in 0..(-1) |-> 0], error |-> FALSE]
    /\ twice = FALSE
    /\ undid = FALSE
    /\ run = 0
    /\ hoverPaused = FALSE

Init == \E S \in MainSupplied, d \in 0..MaxSlides : Constructed(S, d)

\* ------------------------------------------------------------------ actions
Handlers ==
    [isEnabled |-> isEnabled,
     mouseenter |-> mouseenterHandlers, mouseleave |-> mouseleaveHandlers,
     nextClick |-> nextClickHandlers, prevClick |-> prevClickHandlers]

SetHandlers(h) ==
    /\ isEnabled' = h.isEnabled
    /\ mouseenterHandlers' = h.mouseenter
    /\ mouseleaveHandlers' = h.mouseleave
    /\ nextClickHandlers' = h.nextClick
    /\ prevClickHandlers' = h.prevClick

\* enable() without the isEnabled test: attaches the handlers again.
enableNoGuard(h) ==
    [isEnabled |-> TRUE,
     mouseenter |-> h.mouseenter + 1, mouseleave |-> h.mouseleave + 1,
     nextClick |-> h.nextClick + 1, prevClick |-> h.prevClick + 1]

\* enable(): unless already enabled, attaches the two hover handlers to the root
\* and one more click handler to each of the next and prev triggers.
enableOp(h) ==
    IF h.isEnabled THEN h
    ELSE [isEnabled |-> TRUE,
          mouseenter |-> h.mouseenter + 1, mouseleave |-> h.mouseleave + 1,
          nextClick |-> h.nextClick + 1, prevClick |-> h.prevClick + 1]

\* disable() that tears down the click handlers as well.
disableAll(h) ==
    IF ~h.isEnabled THEN h
    ELSE [isEnabled |-> FALSE, mouseenter |-> 0, mouseleave |-> 0,
          nextClick |-> 0, prevClick |-> 0]

\* disable(): unless already disabled, .off() removes every attachment of the
\* two hover handlers.
disableOp(h) ==
    IF ~h.isEnabled THEN h
    ELSE [h EXCEPT !.isEnabled = FALSE, !.mouseenter = 0, !.mouseleave = 0]

\* new Carousel(...) reaches init(): setSelectors, createChildren, setupHandlers,
\* enable, startSlideshow.
init ==
    /\ pc = "new"
    /\ pc' = "ready"
    /\ view' = createChildrenOp([view EXCEPT !.selectors = setSelectors(view.selectors)])
    /\ SetHandlers(enableOp(Handlers))
    /\ SetTimers(startSlideshowOp(Timers))
    /\ UNCHANGED <<SELECTORS, pointerInside, hoverPaused>>
    /\ Record("init", view.currentIndex)

\* The integers a caller may pass to goToSlide: every index, one step past
\* either end, and one far out of range on either side.
FarOver == MaxSlides + 5
FarUnder == 0 - 5
Targets == ((0 - 1)..MaxSlides) \cup {FarOver, FarUnder}

goToSlide(t) ==
    /\ pc = "ready"
    /\ view' = goToSlideOp(view, t)
    /\ last' = Op("goToSlide", t)
    /\ twice' = (last.op \in {"goToSlide", "init"} /\ last.arg = t)
    /\ before' = IF twice' THEN view ELSE view'
    /\ undid' = FALSE
    /\ run' = 0
    /\ UNCHANGED <<pc, SELECTORS, handlers, timers, pointerInside, hoverPaused>>

goToNextSlide ==
    /\ pc = "ready"
    /\ view' = goToNextSlideOp(view)
    /\ last' = Op("goToNextSlide", 0)
    /\ undid' = (last.op = "goToPreviousSlide" /\ ~undid)
    /\ before' = IF undid' THEN before ELSE view
    /\ twice' = FALSE
    /\ run' = IF run = 0 \/ run >= view.numSlides
              THEN (IF view.currentIndex = 0 THEN 1 ELSE 0)
              ELSE run + 1
    /\ UNCHANGED <<pc, SELECTORS, handlers, timers, pointerInside, hoverPaused>>

goToPreviousSlide ==
    /\ pc = "ready"
    /\ view' = goToPreviousSlideOp(view)
    /\ last' = Op("goToPreviousSlide", 0)
    /\ undid' = (last.op = "goToNextSlide" /\ ~undid)
    /\ before' = IF undid' THEN before ELSE view
    /\ twice' = FALSE
    /\ run' = 0
    /\ UNCHANGED <<pc, SELECTORS, handlers, timers, pointerInside, hoverPaused>>

enable ==
    /\ pc = "ready"
    /\ isEnabled \/ nextClickHandlers < MaxHandlers
    /\ SetHandlers(enableOp(Handlers))
    /\ UNCHANGED <<pc, SELECTORS, view, timers, pointerInside, hoverPaused>>
    /\ Record("enable", IF isEnabled THEN 1 ELSE 0)

disable ==
    /\ pc = "ready"
    /\ SetHandlers(disableOp(Handlers))
    /\ UNCHANGED <<pc, SELECTORS, view, timers, pointerInside, hoverPaused>>
    /\ Record("disable", IF isEnabled THEN 1 ELSE 0)

startSlideshow ==
    /\ pc = "ready"
    /\ timerIds < MaxTimers
    /\ SetTimers(startSlideshowOp(Timers))
    /\ UNCHANGED <<pc, SELECTORS, view, handlers, pointerInside, hoverPaused>>
    /\ Record("startSlideshow", 0)

stopSlideshow ==
    /\ pc = "ready"
    /\ SetTimers(stopSlideshowOp(Timers))
    /\ UNCHANGED <<pc, SELECTORS, view, handlers, pointerInside, hoverPaused>>
    /\ Record("stopSlideshow", IF timer \in activeTimers THEN 1 ELSE 0)

\* The interval callback of registration id fires: self.goToNextSlide().
TimerTick(id) ==
    /\ pc = "ready"
    /\ id \in activeTimers
    /\ view' = goToNextSlideOp(view)
    /\ UNCHANGED <<pc, SELECTORS, handlers, timers, pointerInside, hoverPaused>>
    /\ Record("tick", id)

\* A click on the next trigger runs every click handler attached to it.
ClickNext ==
    /\ pc = "ready"
    /\ view' = NextTimes(view, nextClickHandlers)
    /\ UNCHANGED <<pc, SELECTORS, handlers, timers, pointerInside, hoverPaused>>
    /\ Record("clickNext", 0)

ClickPrev ==
    /\ pc = "ready"
    /\ view' = PrevTimes(view, prevClickHandlers)
    /\ UNCHANGED <<pc, SELECTORS, handlers, timers, pointerInside, hoverPaused>>
    /\ Record("clickPrev", 0)

\* A click on navigation trigger e: $.proxy(self.goToSlide, self, index).
ClickNav(e) ==
    /\ pc = "ready"
    /\ e \in DOMAIN view.navClick
    /\ view.navClick[e] >= 0
    /\ view' = goToSlideOp(view, view.navClick[e])
    /\ UNCHANGED <<pc, SELECTORS, handlers, timers, pointerInside, hoverPaused>>
    /\ Record("clickNav", e)

\* The pointer moves onto the root: onCarouselMouseEnter runs if attached.
MouseEnter ==
    /\ pc = "ready"
    /\ ~pointerInside
    /\ pointerInside' = TRUE
    /\ SetTimers(IF mouseenterHandlers > 0 THEN stopSlideshowOp(Timers) ELSE Timers)
    /\ hoverPaused' = (mouseenterHandlers > 0 \/ hoverPaused)
    /\ UNCHANGED <<pc, SELECTORS, view, handlers>>
    /\ Record("mouseenter", 0)

\* The pointer leaves the root: onCarouselMouseLeave runs if attached.
MouseLeave ==
    /\ pc = "ready"
    /\ pointerInside
    /\ timerIds + mouseleaveHandlers <= MaxTimers
    /\ pointerInside' = FALSE
    /\ SetTimers(StartTimes(Timers, mouseleaveHandlers))
    /\ hoverPaused' = (mouseleaveHandlers = 0 /\ hoverPaused)
    /\ UNCHANGED <<pc, SELECTORS, view, handlers>>
    /\ Record("mouseleave", 0)

Next ==
    \/ init
    \/ \E t \in Targets : goToSlide(t)
    \/ goToNextSlide
    \/ goToPreviousSlide
    \/ enable
    \/ disable
    \/ startSlideshow
    \/ stopSlideshow
    \/ \E id \in 1..MaxTimers : TimerTick(id)
    \/ ClickNext
    \/ ClickPrev
    \/ \E e \in 0..(MaxSlides - 1) : ClickNav(e)
    \/ MouseEnter
    \/ MouseLeave

Spec == Init /\ [][Next]_vars

\* The resolution of the selectors alone: every SELECTORS object a caller may
\* supply, and the construction that resolves it.
SelInit == \E S \in AllSupplied, d \in 0..MaxSlides : Constructed(S, d)

SelNext == init

SelSpec == SelInit /\ [][SelNext]_vars

\* The page left to itself and its user: construction, interval callbacks, clicks,
\* the pointer, and starts and stops of the slideshow.  setInterval keeps firing
\* a registered callback, so each registration's tick is weakly fair.
LiveNext ==
    \/ init
    \/ startSlideshow
    \/ stopSlideshow
    \/ \E id \in 1..MaxTimers : TimerTick(id)
    \/ ClickNext
    \/ ClickPrev
    \/ \E e \in 0..(MaxSlides - 1) : ClickNav(e)
    \/ MouseEnter
    \/ MouseLeave

LiveSpec ==
    /\ Init
    /\ [][LiveNext]_vars
    /\ \A id \in 1..MaxTimers : WF_vars(TimerTick(id))

\* Plain hover use: after construction nobody calls enable(), disable(),
\* startSlideshow() or stopSlideshow(); the pointer, the intervals, clicks and
\* navigation calls are all that happens.
HoverNext ==
    \/ init
    \/ \E t \in Targets : goToSlide(t)
    \/ goToNextSlide
    \/ goToPreviousSlide
    \/ \E id \in 1..MaxTimers : TimerTick(id)
    \/ ClickNext
    \/ ClickPrev
    \/ \E e \in 0..(MaxSlides - 1) : ClickNav(e)
    \/ MouseEnter
    \/ MouseLeave

HoverSpec == Init /\ [][HoverNext]_vars

TypeOK ==
    /\ pc \in {"new", "ready"}
    /\ timer \in 0..MaxTimers
    /\ view.currentIndex \in (0 - 1)..MaxSlides

\* ------------------------------------------------------------------- claims
Ready == pc = "ready"
N == view.numSlides
ActiveSlides == {e \in DOMAIN view.slideClasses :
                    view.selectors.ACTIVE_SLIDE_CLASS \in view.slideClasses[e]}
InactiveSlides == {e \in DOMAIN view.slideClasses :
                    view.selectors.INACTIVE_SLIDE_CLASS \in view.slideClasses[e]}
ActiveNav == {e \in DOMAIN view.navClasses :
                    view.selectors.ACTIVE_NAV_CLASS \in view.navClasses[e]}

\* C1: with N > 0 slides, after construction and after every operation, exactly
\* one slide and exactly one navigation trigger carry the active marker, both at
\* position currentIndex; every other slide carries the inactive marker and no
\* slide carries both markers.
C1_ExactlyOneActive ==
    (Ready /\ N > 0) =>
        /\ ActiveSlides = {view.currentIndex}
        /\ ActiveNav = {view.currentIndex}
        /\ InactiveSlides = (DOMAIN view.slideClasses) \ {view.currentIndex}

\* C1 witness: goToPreviousSlide() wrapped from the first to the last of several slides.
C1_Witness ==
    /\ Ready /\ N >= 2
    /\ last.op = "goToPreviousSlide" /\ last.from = 0
    /\ view.currentIndex = N - 1
    /\ ActiveSlides = {N - 1}

\* C2: with N > 0, goToSlide(t) leaves currentIndex = 0 when t >= N, N - 1 when
\* t < 0 and t when 0 <= t < N (so N + 5 gives 0, not 5 mod N), and never throws.
C2_GoToSlideIndex ==
    (Ready /\ N > 0 /\ last.op = "goToSlide") =>
        /\ ~view.error
        /\ last.arg >= N => view.currentIndex = 0
        /\ last.arg < 0 => view.currentIndex = N - 1
        /\ (0 <= last.arg /\ last.arg < N) => view.currentIndex = last.arg

\* C2 witness: goToSlide(N + 5) where 5 mod N is not 0 ended at index 0.
C2_Witness ==
    /\ Ready /\ N > 0
    /\ last.op = "goToSlide" /\ last.arg = N + 5
    /\ 5 % N # 0
    /\ view.currentIndex = 0

\* C3: with N > 0, currentIndex starts at 0 and stays in 0..N-1 under every
\* interleaving of ticks, clicks, calls and hover events.
C3_IndexInRange ==
    /\ last.op \in {"new", "init"} => view.currentIndex = 0
    /\ (Ready /\ N > 0) => (0 <= view.currentIndex /\ view.currentIndex < N)

\* C3 witness: a timer tick wrapped currentIndex from N - 1 to 0 while a second
\* timer registration exists.
C3_Witness ==
    /\ Ready /\ N >= 2
    /\ last.op = "tick" /\ last.from = N - 1
    /\ view.currentIndex = 0
    /\ timerIds >= 2

\* C4: with N > 0, the k-th of N consecutive goToNextSlide() calls that start at
\* currentIndex 0 leaves currentIndex = k mod N: 1, 2, ..., N - 1, 0.
C4_NextCycle ==
    (Ready /\ N > 0 /\ run > 0) =>
        /\ run <= N
        /\ view.currentIndex = run % N

\* C4 witness: the N-th consecutive call, for several slides, is back at 0.
C4_Witness ==
    /\ Ready /\ N >= 2
    /\ run = N
    /\ last.op = "goToNextSlide" /\ last.from = N - 1
    /\ view.currentIndex = 0

\* C5: with N > 0, goToPreviousSlide() does what goToSlide(currentIndex - 1) does:
\* from 0 it leaves N - 1, from i > 0 it leaves i - 1; and goToNextSlide() then
\* goToPreviousSlide(), or the reverse, restores index and markers.
C5_PreviousUndoesNext ==
    (Ready /\ N > 0) =>
        /\ last.op = "goToPreviousSlide" =>
             view.currentIndex = (IF last.from = 0 THEN N - 1 ELSE last.from - 1)
        /\ (last.op = "goToPreviousSlide" /\ ~undid) =>
             view = goToSlideOp(before, before.currentIndex - 1)
        /\ undid => view = before

\* C5 witness: goToNextSlide() wrapped from the last slide to the first and
\* goToPreviousSlide() wrapped back.
C5_Witness ==
    /\ Ready /\ N >= 2
    /\ undid /\ last.op = "goToPreviousSlide" /\ last.from = 0
    /\ view.currentIndex = N - 1

\* C6: right after construction with N > 0 slides, currentIndex = 0, slide 0 is
\* active and not inactive, slides 1..N-1 are inactive and not active, there are
\* exactly N navigation triggers bound to 0..N-1 in order, and only trigger 0 is active.
C6_AfterConstruction ==
    (last.op = "init" /\ N > 0) =>
        /\ view.currentIndex = 0
        /\ ActiveSlides = {0}
        /\ InactiveSlides = 1..(N - 1)
        /\ DOMAIN view.navClasses = 0..(N - 1)
        /\ view.nav_items.els = Children(N)
        /\ \A e \in 0..(N - 1) : view.navClick[e] = e
        /\ ActiveNav = {0}

\* C6 witness: a carousel of several slides was just constructed.
C6_Witness ==
    /\ last.op = "init" /\ N >= 2
    /\ Cardinality(InactiveSlides) = N - 1

\* C7: with N > 0, a second goToSlide(t) right after goToSlide(t), or right after
\* the bind-time call of construction, leaves the index and every marker unchanged.
C7_RenderIdempotent ==
    (Ready /\ N > 0 /\ twice) => view = before

\* C7 witness: goToSlide(t) was called twice in a row for a slide other than the first.
C7_Witness ==
    /\ Ready /\ N >= 2
    /\ twice /\ last.op = "goToSlide"
    /\ view.currentIndex = last.arg /\ last.arg > 0

\* C8: once a mouseenter has been handled, no timer tick changes currentIndex
\* until the next mouseleave is handled.
C8_NoTickWhilePaused ==
    (Ready /\ hoverPaused /\ last.op = "tick") => view.currentIndex = last.from

\* C9: with no slides, construction and every later goToSlide, goToNextSlide,
\* goToPreviousSlide call or timer tick completes without throwing, there is no
\* navigation trigger, and no element carries a marker.
C9_NoSlidesInert ==
    (Ready /\ DOMAIN view.slideClasses = {}) =>
        /\ ~view.error
        /\ N = 0
        /\ DOMAIN view.navClasses = {}
        /\ view.nav_items = JQ(<<>>)
        /\ view.currentSlide = JQ(<<>>)
        /\ ActiveSlides \cup InactiveSlides \cup ActiveNav = {}

\* C9 witness: a timer tick ran on a carousel without slides.
C9_Witness ==
    /\ Ready /\ N = 0
    /\ last.op = "tick"
    /\ ~view.error

\* C10: the resolved selectors give every role a value: the default when the
\* caller's object has no such key, the caller's value when it has, also when
\* that value is the empty string.
C10_SelectorsResolved ==
    Ready =>
        /\ DOMAIN view.selectors = Keys
        /\ \A k \in Keys :
             view.selectors[k] = (IF k \in DOMAIN SELECTORS THEN SELECTORS[k]
                                  ELSE SELECTORS_DEFAULT[k])

\* C11: enable() while enabled and disable() while disabled change nothing (flag,
\* hover handlers, click handlers, timer registrations, view); enable() while
\* disabled attaches both hover handlers and sets the flag; disable() while
\* enabled detaches both hover handlers and clears the flag.
C11_EnableDisableGuarded ==
    [][/\ (last'.op = "enable" /\ isEnabled) => UNCHANGED <<handlers, timers, view>>
       /\ (last'.op = "disable" /\ ~isEnabled) => UNCHANGED <<handlers, timers, view>>
       /\ (last'.op = "enable" /\ ~isEnabled) =>
            /\ isEnabled'
            /\ mouseenterHandlers' = 1 /\ mouseleaveHandlers' = 1
       /\ (last'.op = "disable" /\ isEnabled) =>
            /\ ~isEnabled'
            /\ mouseenterHandlers' = 0 /\ mouseleaveHandlers' = 0]_vars

\* C11 witness: enable() was called on a carousel that was already enabled again
\* after a disable().
C11_Witness ==
    /\ Ready
    /\ last.op = "enable" /\ last.arg = 1
    /\ isEnabled /\ mouseenterHandlers = 1 /\ mouseleaveHandlers = 1
    /\ nextClickHandlers = 2

\* C12: stopSlideshow() cancels exactly the registration this.timer refers to; when
\* that registration is already cancelled the call raises no error, cancels no
\* other registration, creates none, and leaves currentIndex and the markers as
\* they were.
C12_StopCancelsOnlyHandle ==
    [][last'.op = "stopSlideshow" =>
         /\ activeTimers' = activeTimers \ {timer}
         /\ timer \notin activeTimers => activeTimers' = activeTimers
         /\ timerIds' = timerIds
         /\ view' = view
         /\ ~view'.error]_vars

\* C12 witness: stopSlideshow() was called on an already stopped handle while an
\* earlier registration was still active, and that one is still active.
C12_Witness ==
    /\ Ready
    /\ last.op = "stopSlideshow" /\ last.arg = 0
    /\ timer \notin activeTimers
    /\ activeTimers # {}

\* C13: startSlideshow() registers a new timer beside every registration that is
\* already active; stopSlideshow() cancels only the one this.timer holds; a
\* registration this.timer no longer holds stays active through every later step,
\* so its ticks go on calling goToNextSlide().
C13_NoDoubleStartGuard ==
    [][/\ last'.op = "startSlideshow" =>
            /\ timer' \notin activeTimers
            /\ activeTimers' = activeTimers \cup {timer'}
       /\ last'.op = "stopSlideshow" => activeTimers' = activeTimers \ {timer}
       /\ \A id \in activeTimers \ {timer} : id \in activeTimers']_vars

\* C13 witness: after a double start and one stop, the earlier registration has
\* just ticked and moved currentIndex while this.timer's own is cancelled.
C13_Witness ==
    /\ Ready
    /\ last.op = "tick" /\ last.arg # timer
    /\ last.arg \in activeTimers
    /\ timer \notin activeTimers
    /\ view.currentIndex # last.from

\* C14: whatever enable()/disable() calls came before, one click on the next
\* trigger moves currentIndex one step forward and one click on the previous
\* trigger one step back, with wraparound (N > 0).
C14_OneClickOneStep ==
    (Ready /\ N > 0) =>
        /\ last.op = "clickNext" => view.currentIndex = (last.from + 1) % N
        /\ last.op = "clickPrev" => view.currentIndex = (last.from + N - 1) % N

\* C15 as stated: this.timer is null or the id of an active registration.
C15_HandleNoneOrActive ==
    Ready => (timer = 0 \/ timer \in activeTimers)

\* C15: this.timer is the id of the most recently created registration, which may
\* already be cancelled; it is never null after construction, and right after
\* stopSlideshow() it still holds the id of the registration just cancelled.
C15_HandleIsLatest ==
    Ready =>
        /\ timer = timerIds /\ timer # 0
        /\ activeTimers \subseteq 1..timer
        /\ last.op = "stopSlideshow" => timer \notin activeTimers

\* C15 witness: stopSlideshow() cancelled the only registration and this.timer
\* still holds its id.
C15_Witness ==
    /\ Ready
    /\ last.op = "stopSlideshow" /\ last.arg = 1
    /\ activeTimers = {}
    /\ timer = 1

Clicks == {"clickNext", "clickPrev", "clickNav"}

\* C17 as stated: construction ends with one active registration, and while some
\* registration stays active every slide index is current again and again,
\* whatever clicks are interleaved.
C17_AutoplayVisitsAll ==
    /\ [](last.op = "init" => Cardinality(activeTimers) = 1)
    /\ \A i \in 0..(MaxSlides - 1) :
          [](Ready => activeTimers # {})
              => []<>((Ready /\ i < N) => view.currentIndex = i)

\* C17: construction ends with one active registration, and while some
\* registration stays active and clicks eventually cease, every slide index is
\* current again and again.
C17_AutoplayVisitsAllUnlessClicked ==
    /\ [](last.op = "init" => Cardinality(activeTimers) = 1)
    /\ \A i \in 0..(MaxSlides - 1) :
          ([](Ready => activeTimers # {}) /\ <>[](last.op \notin Clicks))
              => []<>((Ready /\ i < N) => view.currentIndex = i)

\* C17 witness: a tick has wrapped from the last of several slides to the first
\* while a second registration is active as well.
C17_Witness ==
    /\ Ready
    /\ N >= 2
    /\ last.op = "tick" /\ last.from = N - 1
    /\ view.currentIndex = 0
    /\ Cardinality(activeTimers) = 2

\* C18: under plain hover use at most one timer registration is active: exactly
\* one (the one this.timer holds) while the pointer is outside the root, none
\* while it is inside.
C18_HoverSingleTimer ==
    Ready =>
        /\ Cardinality(activeTimers) <= 1
        /\ pointerInside => activeTimers = {}
        /\ ~pointerInside => activeTimers = {timer}

\* C18 witness: the pointer has entered and left the root and the slideshow runs
\* on the registration made on leaving.
C18_Witness ==
    /\ Ready
    /\ last.op = "mouseleave"
    /\ ~pointerInside
    /\ timer >= 2
    /\ activeTimers = {timer}

\* C19: with no slides currentIndex is 0 after every navigation call and tick.
C19_EmptyIndexZero ==
    (Ready /\ N = 0) => view.currentIndex = 0

====
